---- MODULE Spec2Model ----
(***************************************************************************)
(* A model of src/python/chunked_decoder.py: the incremental decoder of    *)
(* the simplified chunked encoding                                         *)
(*     <hex-size> CR LF <payload> CR LF ... 0 CR LF CR LF                  *)
(* (ChunkedDecoder), and the block collector that gathers its output       *)
(* (_BlockCollector).                                                      *)
(*                                                                         *)
(* A character is its code point (ord), a text is a sequence of            *)
(* characters.  Python indexes a text from 0; the model keeps the Python   *)
(* index i and reads chunk[i + 1].                                         *)
(***************************************************************************)
EXTENDS Integers, Sequences, FiniteSets

\* ------------------------------------------------------------- bounds

\* Total number of characters passed to decode_chunk before the decoder is done
\* (Spec).  At most MaxFed hex digits reach the size accumulator, which Python
\* keeps as an unbounded integer: up to 8 digits stay within the integers of
\* the model checker.
MaxFed == 7
\* Longest fragment passed to one decode_chunk call in Spec.
MaxFragLen == 3
\* Total number of payload characters of a valid stream (SpecValid).
MaxPayloadTotal == 3
\* Total number of characters passed to push (SpecCollector).
MaxPushed == 4
\* Longest string passed to one push call (SpecCollector).
MaxPushLen == 2
\* Largest small threshold a collector is built with (SpecCollector).
MaxThreshold == 3
MaxDigits == 3
MaxText == 5

\* ------------------------------------------------------------- characters

CR == 13
LF == 10
Char0 == 48
Char1 == 49
Char2 == 50
CharUpperA == 65
CharLowerA == 97
CharLowerF == 102
CharG == 103

\* The characters the fragments of Spec are drawn from: the two delimiter
\* characters, the digit of the terminal chunk, a non-zero hex digit and a
\* non-hex character.
Alphabet == {CR, LF, Char0, Char2, CharG}

\* ------------------------------------------------------------- constants

STATE_SIZE == 0
STATE_PAYLOAD == 1
STATE_EXPECT_CRLF == 2
STATE_DONE == 3

NEXT_SIZE == 0
NEXT_DONE == 1

\* What a call raised: the exception class and its message.
NoError == "none"
ErrSizeLF == "ValueError: Invalid chunked encoding: expected LF after CR in size line."
ErrSizeHex == "ValueError: Invalid chunk size line (expected hex digits)."
ErrCRLF == "ValueError: Invalid chunked encoding: expected CRLF."
ErrNotFinished == "RuntimeError: Chunked stream not finished."

\* ------------------------------------------------------------- text helpers

\* "".join(parts)
RECURSIVE Join(_)
Join(parts) ==
    IF parts = <<>> THEN <<>> ELSE Head(parts) \o Join(Tail(parts))

\* chunk[a:b] for 0 <= a, b (Python slice, clipped to the text).
Slice(chunk, a, b) ==
    SubSeq(chunk, a + 1, IF b <= Len(chunk) THEN b ELSE Len(chunk))

\* chunk.find(c, i): the lowest index >= i holding c, or -1.
Find(chunk, c, i) ==
    LET hits == {j \in i..(Len(chunk) - 1) : chunk[j + 1] = c}
    IN  IF hits = {} THEN -1
        ELSE CHOOSE j \in hits : \A k \in hits : j <= k

\* ------------------------------------------------------------- _hex_value

\* _hex_value whose last range ends one character late (a-g).
HexValueWide(c) ==
    IF 48 <= c /\ c <= 57 THEN c - 48
    ELSE IF 65 <= c /\ c <= 70 THEN c - 55
    ELSE IF 97 <= c /\ c <= 103 THEN c - 87
    ELSE -1

HexValue(c) ==
    IF 48 <= c /\ c <= 57 THEN c - 48
    ELSE IF 65 <= c /\ c <= 70 THEN c - 55
    ELSE IF 97 <= c /\ c <= 102 THEN c - 87
    ELSE -1

\* ------------------------------------------------------------- ChunkedDecoder

\* ChunkedDecoder.__init__
InitDecoder ==
    [state |-> STATE_SIZE,
     saw_size_cr |-> FALSE,
     size_acc |-> 0,
     size_any |-> FALSE,
     remaining |-> 0,
     expect_index |-> 0,
     after_expect |-> NEXT_SIZE]

\* _start_expect_crlf that does not record the resume target.
StartExpectCrlfForgetsTarget(dec, next_state) ==
    [dec EXCEPT !.state = STATE_EXPECT_CRLF,
                !.expect_index = 0]

\* ChunkedDecoder._start_expect_crlf
StartExpectCrlf(dec, next_state) ==
    [dec EXCEPT !.state = STATE_EXPECT_CRLF,
                !.expect_index = 0,
                !.after_expect = next_state]

\* FinishExpectCrlf that resumes with a size line whatever the resume target.
FinishExpectCrlfNeverDone(dec) ==
    [dec EXCEPT !.expect_index = 0, !.state = STATE_SIZE]

\* FinishExpectCrlf that ends the stream whatever the resume target.
FinishExpectCrlfAlwaysDone(dec) ==
    [dec EXCEPT !.expect_index = 0, !.state = STATE_DONE]

FinishExpectCrlf(dec) ==
    [dec EXCEPT !.expect_index = 0,
                !.state = IF dec.after_expect = NEXT_DONE
                          THEN STATE_DONE ELSE STATE_SIZE]

IsDoneOp(dec) == dec.state = STATE_DONE

\* One pass through the body of the while loop of decode_chunk, from index i
\* (i < len(chunk)).  The result: the decoder fields, the index, the strings
\* given to on_data, what was raised, and whether decode_chunk is left (by
\* return or raise) rather than looping on.
StepResult(dec, i, emit, err, ret) ==
    [d |-> dec, i |-> i, emit |-> emit, err |-> err, ret |-> ret]

\* The end of a size line that insists on at least one digit.
SizeLfStepRejectsEmpty(dec, chunk, i) ==
    LET c == chunk[i + 1]
        size == dec.size_acc
        d1 == [dec EXCEPT !.saw_size_cr = FALSE,
                          !.size_acc = 0,
                          !.size_any = FALSE,
                          !.remaining = size]
    IN  IF c # LF
        THEN StepResult(dec, i + 1, <<>>, ErrSizeLF, TRUE)
        ELSE IF ~dec.size_any
        THEN StepResult(dec, i + 1, <<>>, ErrSizeHex, TRUE)
        ELSE IF size = 0
        THEN StepResult(StartExpectCrlf(d1, NEXT_DONE), i + 1, <<>>, NoError, FALSE)
        ELSE StepResult([d1 EXCEPT !.state = STATE_PAYLOAD], i + 1, <<>>, NoError, FALSE)

\* state == _STATE_SIZE, after the CR of the size line.
SizeLfStep(dec, chunk, i) ==
    LET c == chunk[i + 1]
        size == IF dec.size_any THEN dec.size_acc ELSE 0
        d1 == [dec EXCEPT !.saw_size_cr = FALSE,
                          !.size_acc = 0,
                          !.size_any = FALSE,
                          !.remaining = size]
    IN  IF c # LF
        THEN StepResult(dec, i + 1, <<>>, ErrSizeLF, TRUE)
        ELSE IF size = 0
        THEN StepResult(StartExpectCrlf(d1, NEXT_DONE), i + 1, <<>>, NoError, FALSE)
        ELSE StepResult([d1 EXCEPT !.state = STATE_PAYLOAD], i + 1, <<>>, NoError, FALSE)

\* The accumulation loop in base ten.
RECURSIVE AccumulateDecimal(_, _)
AccumulateDecimal(acc, digits) ==
    IF digits = <<>> THEN acc
    ELSE AccumulateDecimal(acc * 10 + HexValue(Head(digits)), Tail(digits))

\* The accumulation loop over chunk[i:end]: acc = (acc << 4) | v.
RECURSIVE Accumulate(_, _)
Accumulate(acc, digits) ==
    IF digits = <<>> THEN acc
    ELSE Accumulate(acc * 16 + HexValue(Head(digits)), Tail(digits))

\* The digits step that notes the CR of the size line without consuming it.
SizeDigitsStepKeepsCr(dec, chunk, i) ==
    LET n == Len(chunk)
        cr == Find(chunk, CR, i)
        end == IF cr = -1 THEN n ELSE cr
        digits == Slice(chunk, i, end)
        bad == \E k \in 1..Len(digits) : HexValue(digits[k]) < 0
        d1 == [dec EXCEPT !.size_acc = Accumulate(dec.size_acc, digits),
                          !.size_any = dec.size_any \/ digits # <<>>]
    IN  IF bad
        THEN StepResult(dec, i, <<>>, ErrSizeHex, TRUE)
        ELSE IF cr # -1
        THEN StepResult([d1 EXCEPT !.saw_size_cr = TRUE], end, <<>>, NoError, FALSE)
        ELSE StepResult(d1, end, <<>>, NoError, FALSE)

\* state == _STATE_SIZE, reading the digits up to the next CR.
SizeDigitsStep(dec, chunk, i) ==
    LET n == Len(chunk)
        cr == Find(chunk, CR, i)
        end == IF cr = -1 THEN n ELSE cr
        digits == Slice(chunk, i, end)
        bad == \E k \in 1..Len(digits) : HexValue(digits[k]) < 0
        d1 == [dec EXCEPT !.size_acc = Accumulate(dec.size_acc, digits),
                          !.size_any = dec.size_any \/ digits # <<>>]
    IN  IF bad
        THEN StepResult(dec, i, <<>>, ErrSizeHex, TRUE)
        ELSE IF cr # -1
        THEN StepResult([d1 EXCEPT !.saw_size_cr = TRUE], end + 1, <<>>, NoError, FALSE)
        ELSE StepResult(d1, end, <<>>, NoError, FALSE)

\* PayloadStep that keeps _remaining when the fragment ends inside the payload.
PayloadStepKeepsRemaining(dec, chunk, i) ==
    LET n == Len(chunk)
        remaining == dec.remaining
        available == n - i
    IN  IF remaining <= available
        THEN StepResult(StartExpectCrlf([dec EXCEPT !.remaining = 0], NEXT_SIZE),
                        IF remaining # 0 THEN i + remaining ELSE i,
                        IF remaining # 0 THEN <<Slice(chunk, i, i + remaining)>> ELSE <<>>,
                        NoError, FALSE)
        ELSE StepResult(dec, i, <<Slice(chunk, i, n)>>, NoError, TRUE)

\* PayloadStep that compares strictly and calls on_data without the
\* "if remaining" guard.
PayloadStepNoGuard(dec, chunk, i) ==
    LET n == Len(chunk)
        remaining == dec.remaining
        available == n - i
    IN  IF remaining < available
        THEN StepResult(StartExpectCrlf([dec EXCEPT !.remaining = 0], NEXT_SIZE),
                        i + remaining,
                        <<Slice(chunk, i, i + remaining)>>,
                        NoError, FALSE)
        ELSE StepResult([dec EXCEPT !.remaining = remaining - available],
                        i, <<Slice(chunk, i, n)>>, NoError, TRUE)

\* PayloadStep that does not clear remaining when the payload is complete.
PayloadStepLeavesRemaining(dec, chunk, i) ==
    LET n == Len(chunk)
        remaining == dec.remaining
        available == n - i
    IN  IF remaining <= available
        THEN StepResult(StartExpectCrlf(dec, NEXT_SIZE),
                        IF remaining # 0 THEN i + remaining ELSE i,
                        IF remaining # 0 THEN <<Slice(chunk, i, i + remaining)>> ELSE <<>>,
                        NoError, FALSE)
        ELSE StepResult([dec EXCEPT !.remaining = remaining - available],
                        i, <<Slice(chunk, i, n)>>, NoError, TRUE)

\* PayloadStep that delivers nothing until the rest of the payload is there.
PayloadStepSilentPartial(dec, chunk, i) ==
    LET n == Len(chunk)
        remaining == dec.remaining
        available == n - i
    IN  IF remaining <= available
        THEN StepResult(StartExpectCrlf([dec EXCEPT !.remaining = 0], NEXT_SIZE),
                        IF remaining # 0 THEN i + remaining ELSE i,
                        IF remaining # 0 THEN <<Slice(chunk, i, i + remaining)>> ELSE <<>>,
                        NoError, FALSE)
        ELSE StepResult([dec EXCEPT !.remaining = remaining - available],
                        i, <<>>, NoError, TRUE)

\* state == _STATE_PAYLOAD.
PayloadStep(dec, chunk, i) ==
    LET n == Len(chunk)
        remaining == dec.remaining
        available == n - i
    IN  IF remaining <= available
        THEN StepResult(StartExpectCrlf([dec EXCEPT !.remaining = 0], NEXT_SIZE),
                        IF remaining # 0 THEN i + remaining ELSE i,
                        IF remaining # 0 THEN <<Slice(chunk, i, i + remaining)>> ELSE <<>>,
                        NoError, FALSE)
        ELSE StepResult([dec EXCEPT !.remaining = remaining - available],
                        i, <<Slice(chunk, i, n)>>, NoError, TRUE)

\* ExpectStep that takes any character for the second delimiter character.
ExpectStepLax(dec, chunk, i) ==
    LET n == Len(chunk)
        c == chunk[i + 1]
        d1 == [dec EXCEPT !.expect_index = dec.expect_index + 1]
        d2 == IF d1.expect_index = 2 THEN FinishExpectCrlf(d1) ELSE d1
    IN  IF dec.expect_index = 0 /\ i + 2 <= n /\ Slice(chunk, i, i + 2) = <<CR, LF>>
        THEN LET f == FinishExpectCrlf(dec)
             IN  StepResult(f, i + 2, <<>>, NoError, f.state = STATE_DONE)
        ELSE IF dec.expect_index = 0 /\ c # CR
        THEN StepResult(dec, i + 1, <<>>, ErrCRLF, TRUE)
        ELSE StepResult(d2, i + 1, <<>>, NoError, d2.state = STATE_DONE)

\* ExpectStep that raises when the fragment goes on after the terminal CRLF.
ExpectStepRejectsTrailing(dec, chunk, i) ==
    LET n == Len(chunk)
        expected == IF dec.expect_index = 0 THEN CR ELSE LF
        c == chunk[i + 1]
        d1 == [dec EXCEPT !.expect_index = dec.expect_index + 1]
        d2 == IF d1.expect_index = 2 THEN FinishExpectCrlf(d1) ELSE d1
    IN  IF dec.expect_index = 0 /\ i + 2 <= n /\ Slice(chunk, i, i + 2) = <<CR, LF>>
        THEN LET f == FinishExpectCrlf(dec)
             IN  IF f.state = STATE_DONE /\ i + 2 < n
                 THEN StepResult(f, i + 2, <<>>, ErrCRLF, TRUE)
                 ELSE StepResult(f, i + 2, <<>>, NoError, f.state = STATE_DONE)
        ELSE IF c # expected
        THEN StepResult(dec, i + 1, <<>>, ErrCRLF, TRUE)
        ELSE IF d2.state = STATE_DONE /\ i + 1 < n
        THEN StepResult(d2, i + 1, <<>>, ErrCRLF, TRUE)
        ELSE StepResult(d2, i + 1, <<>>, NoError, d2.state = STATE_DONE)

\* ExpectStep that, with two characters at hand, blames the CR when no LF
\* follows it.
ExpectStepPeeks(dec, chunk, i) ==
    LET n == Len(chunk)
        expected == IF dec.expect_index = 0 THEN CR ELSE LF
        c == chunk[i + 1]
        d1 == [dec EXCEPT !.expect_index = dec.expect_index + 1]
        d2 == IF d1.expect_index = 2 THEN FinishExpectCrlf(d1) ELSE d1
    IN  IF dec.expect_index = 0 /\ i + 2 <= n /\ Slice(chunk, i, i + 2) = <<CR, LF>>
        THEN LET f == FinishExpectCrlf(dec)
             IN  StepResult(f, i + 2, <<>>, NoError, f.state = STATE_DONE)
        ELSE IF c # expected \/ (dec.expect_index = 0 /\ i + 2 <= n)
        THEN StepResult(dec, i + 1, <<>>, ErrCRLF, TRUE)
        ELSE StepResult(d2, i + 1, <<>>, NoError, d2.state = STATE_DONE)

\* state == _STATE_EXPECT_CRLF.
ExpectStep(dec, chunk, i) ==
    LET n == Len(chunk)
        expected == IF dec.expect_index = 0 THEN CR ELSE LF
        c == chunk[i + 1]
        d1 == [dec EXCEPT !.expect_index = dec.expect_index + 1]
        d2 == IF d1.expect_index = 2 THEN FinishExpectCrlf(d1) ELSE d1
    IN  IF dec.expect_index = 0 /\ i + 2 <= n /\ Slice(chunk, i, i + 2) = <<CR, LF>>
        THEN LET f == FinishExpectCrlf(dec)
             IN  StepResult(f, i + 2, <<>>, NoError, f.state = STATE_DONE)
        ELSE IF c # expected
        THEN StepResult(dec, i + 1, <<>>, ErrCRLF, TRUE)
        ELSE StepResult(d2, i + 1, <<>>, NoError, d2.state = STATE_DONE)

Step(dec, chunk, i) ==
    IF dec.state = STATE_SIZE
    THEN IF dec.saw_size_cr THEN SizeLfStep(dec, chunk, i)
                            ELSE SizeDigitsStep(dec, chunk, i)
    ELSE IF dec.state = STATE_PAYLOAD THEN PayloadStep(dec, chunk, i)
    ELSE IF dec.state = STATE_EXPECT_CRLF THEN ExpectStep(dec, chunk, i)
    ELSE StepResult(dec, i, <<>>, NoError, TRUE)

\* The while loop of decode_chunk: emitted gathers the strings given to on_data.
RECURSIVE Loop(_, _, _, _)
Loop(dec, chunk, i, emitted) ==
    IF i >= Len(chunk)
    THEN [d |-> dec, emitted |-> emitted, err |-> NoError, i |-> i]
    ELSE LET s == Step(dec, chunk, i)
         IN  IF s.ret
             THEN [d |-> s.d, emitted |-> emitted \o s.emit, err |-> s.err, i |-> s.i]
             ELSE Loop(s.d, chunk, s.i, emitted \o s.emit)

\* decode_chunk that starts a new stream when the decoder is done.
DecodeChunkRestarts(dec, chunk) ==
    IF dec.state = STATE_DONE
    THEN Loop(InitDecoder, chunk, 0, <<>>)
    ELSE Loop(dec, chunk, 0, <<>>)

\* ChunkedDecoder.decode_chunk
DecodeChunkOp(dec, chunk) ==
    IF dec.state = STATE_DONE
    THEN [d |-> dec, emitted |-> <<>>, err |-> NoError, i |-> 0]
    ELSE Loop(dec, chunk, 0, <<>>)

\* finalize with the test inverted.
FinalizeInverted(dec) ==
    [d |-> dec, err |-> IF IsDoneOp(dec) THEN ErrNotFinished ELSE NoError]

\* ChunkedDecoder.finalize
FinalizeOp(dec) ==
    [d |-> dec, err |-> IF ~IsDoneOp(dec) THEN ErrNotFinished ELSE NoError]

\* ------------------------------------------------------------- _BlockCollector

DefaultMaxPendingChars == 65536
DefaultMaxPendingParts == 2048

\* _BlockCollector.__init__
NewCollector(max_pending_chars, max_pending_parts) ==
    [blocks |-> <<>>,
     pending |-> <<>>,
     pending_chars |-> 0,
     max_pending_chars |-> max_pending_chars,
     max_pending_parts |-> max_pending_parts]

\* _BlockCollector.flush
FlushOp(c) ==
    IF c.pending = <<>> THEN c
    ELSE [c EXCEPT !.blocks = Append(c.blocks, Join(c.pending)),
                   !.pending = <<>>,
                   !.pending_chars = 0]

\* push that merges only once a threshold is exceeded (> for >=).
PushOpStrict(c, fragment) ==
    IF fragment = <<>> THEN c
    ELSE LET c1 == [c EXCEPT !.pending = Append(c.pending, fragment),
                             !.pending_chars = c.pending_chars + Len(fragment)]
         IN  IF \/ c1.pending_chars > c1.max_pending_chars
                \/ Len(c1.pending) > c1.max_pending_parts
             THEN FlushOp(c1)
             ELSE c1

\* _BlockCollector.push
PushOp(c, fragment) ==
    IF fragment = <<>> THEN c
    ELSE LET c1 == [c EXCEPT !.pending = Append(c.pending, fragment),
                             !.pending_chars = c.pending_chars + Len(fragment)]
         IN  IF \/ c1.pending_chars >= c1.max_pending_chars
                \/ Len(c1.pending) >= c1.max_pending_parts
             THEN FlushOp(c1)
             ELSE c1

\* to_string that joins the sealed blocks without flushing the pending run.
ToStringNoFlush(c) ==
    IF c.blocks = <<>>
    THEN [c |-> c,
          ret |-> IF c.pending = <<>> THEN <<>>
                  ELSE IF Len(c.pending) = 1 THEN c.pending[1]
                  ELSE Join(c.pending)]
    ELSE [c |-> c,
          ret |-> IF Len(c.blocks) = 1 THEN c.blocks[1] ELSE Join(c.blocks)]

\* _BlockCollector.to_string: the collector afterwards and the text returned.
\* to_string that hands the text out and forgets it.
ToStringDrains(c) ==
    LET c1 == FlushOp(c)
    IN  [c |-> [c1 EXCEPT !.blocks = <<>>], ret |-> Join(c1.blocks)]

ToStringOp(c) ==
    IF c.blocks = <<>>
    THEN [c |-> c,
          ret |-> IF c.pending = <<>> THEN <<>>
                  ELSE IF Len(c.pending) = 1 THEN c.pending[1]
                  ELSE Join(c.pending)]
    ELSE LET c1 == FlushOp(c)
         IN  [c |-> c1,
              ret |-> IF Len(c1.blocks) = 1 THEN c1.blocks[1] ELSE Join(c1.blocks)]

\* ------------------------------------------------------------- state

VARIABLES
    d,        \* the fields of the ChunkedDecoder
    out,      \* the concatenation of every string given to on_data
    nfed,     \* the number of characters passed to decode_chunk so far
    failed,   \* some decode_chunk call has raised
    last,     \* the latest call: its name, argument, the fields before it,
              \* the strings it gave to on_data, what it raised or returned
    plan,     \* the input the caller is going to feed (SpecValid): the payloads
              \* of the chunks of a valid stream, and the text that follows it
    col,      \* the fields of the _BlockCollector
    pushed,   \* the concatenation of every string passed to push
    collast   \* the latest call on the collector: its name and what it returned

decvars == <<d, out, nfed, failed, last, plan>>
colvars == <<col, pushed, collast>>
vars == <<d, out, nfed, failed, last, plan, col, pushed, collast>>

Call(op, chunk, pre, emitted, err, ret) ==
    [op |-> op, chunk |-> chunk, pre |-> pre, emitted |-> emitted,
     err |-> err, ret |-> ret]

\* All texts over Alphabet of at most len characters.
RECURSIVE Texts(_)
Texts(len) ==
    IF len = 0 THEN {<<>>}
    ELSE LET shorter == Texts(len - 1)
         IN  shorter \cup {Append(t, c) : t \in {s \in shorter : Len(s) = len - 1},
                                          c \in Alphabet}

Fragments == Texts(MaxFragLen)

NoPlan == [chunks |-> <<>>, extra |-> <<>>]

ColCall(op, ret) == [op |-> op, ret |-> ret]

InitCollector(max_pending_chars, max_pending_parts) ==
    /\ col = NewCollector(max_pending_chars, max_pending_parts)
    /\ pushed = <<>>
    /\ collast = ColCall("init", <<>>)

InitCalls ==
    /\ InitCollector(DefaultMaxPendingChars, DefaultMaxPendingParts)
    /\ d = InitDecoder
    /\ out = <<>>
    /\ nfed = 0
    /\ failed = FALSE
    /\ last = Call("init", <<>>, InitDecoder, <<>>, NoError, FALSE)

Init ==
    /\ InitCalls
    /\ plan = NoPlan

DecodeChunk(chunk) ==
    LET r == DecodeChunkOp(d, chunk)
    IN  /\ d' = r.d
        /\ out' = out \o Join(r.emitted)
        /\ nfed' = nfed + Len(chunk)
        /\ failed' = (failed \/ r.err # NoError)
        /\ last' = Call("decode_chunk", chunk, d, r.emitted, r.err, FALSE)
        /\ UNCHANGED <<plan, colvars>>

Finalize ==
    LET r == FinalizeOp(d)
    IN  /\ d' = r.d
        /\ last' = Call("finalize", <<>>, d, <<>>, r.err, FALSE)
        /\ UNCHANGED <<out, nfed, failed, plan, colvars>>

IsDone ==
    /\ last' = Call("is_done", <<>>, d, <<>>, NoError, IsDoneOp(d))
    /\ UNCHANGED <<d, out, nfed, failed, plan, colvars>>

\* The caller passes any fragment.  MaxFed bounds the characters fed before
\* the decoder is done; a decoder that is done is passed fragments until
\* more than MaxFed characters were fed.
DecodeAny ==
    \E chunk \in Fragments :
        /\ \/ nfed + Len(chunk) <= MaxFed
           \/ IsDoneOp(d) /\ nfed <= MaxFed
        /\ DecodeChunk(chunk)

Next ==
    \/ DecodeAny
    \/ Finalize
    \/ IsDone

Spec == Init /\ [][Next]_vars

\* ------------------------------------------------------------- valid streams

\* The characters of the payloads of SpecValid: the delimiter characters, so
\* that a payload can look like a delimiter or an empty size line.
PayloadAlphabet == {CR, LF}

\* The texts that follow the terminal chunk in SpecValid.
Extras == {<<>>, <<CharG>>, <<CR, LF>>}

HexDigit(v) == IF v < 10 THEN 48 + v ELSE 87 + v

\* The size line's digits for size n, most significant first.
RECURSIVE ToHex(_)
ToHex(n) ==
    IF n < 16 THEN <<HexDigit(n)>> ELSE Append(ToHex(n \div 16), HexDigit(n % 16))

\* <hex-size> CR LF <payload> CR LF ... 0 CR LF CR LF
RECURSIVE Encode(_)
Encode(chunks) ==
    IF chunks = <<>> THEN <<Char0, CR, LF, CR, LF>>
    ELSE ToHex(Len(Head(chunks))) \o <<CR, LF>> \o Head(chunks) \o <<CR, LF>>
         \o Encode(Tail(chunks))

\* All texts over PayloadAlphabet of exactly len characters.
RECURSIVE PayloadTexts(_)
PayloadTexts(len) ==
    IF len = 0 THEN {<<>>}
    ELSE {Append(t, c) : t \in PayloadTexts(len - 1), c \in PayloadAlphabet}

\* All lists of non-empty payloads of exactly total characters together.
RECURSIVE ChunkLists(_)
ChunkLists(total) ==
    IF total = 0 THEN {<<>>}
    ELSE UNION {{<<p>> \o rest : p \in PayloadTexts(k), rest \in ChunkLists(total - k)}
                : k \in 1..total}

Plans ==
    [chunks : UNION {ChunkLists(t) : t \in 0..MaxPayloadTotal}, extra : Extras]

\* The valid stream of the plan, and everything the caller feeds.
Stream == Encode(plan.chunks)
Input == Stream \o plan.extra
Payload == Join(plan.chunks)

InitValid ==
    /\ InitCalls
    /\ plan \in Plans

\* The caller passes the next k characters of the input, for any k >= 1.
Feed ==
    \E k \in 1..(Len(Input) - nfed) :
        DecodeChunk(SubSeq(Input, nfed + 1, nfed + k))

NextValid ==
    \/ Feed
    \/ Finalize
    \/ IsDone

SpecValid == InitValid /\ [][NextValid]_vars

\* ------------------------------------------------------------- collector alone

\* The characters of the strings passed to push.
PushAlphabet == {Char0, CharG}

RECURSIVE PushTexts(_)
PushTexts(len) ==
    IF len = 0 THEN {<<>>}
    ELSE LET shorter == PushTexts(len - 1)
         IN  shorter \cup {Append(t, c) : t \in {s \in shorter : Len(s) = len - 1},
                                          c \in PushAlphabet}

\* The thresholds a collector is built with: the small ones and the defaults.
CharThresholds == 0..MaxThreshold \cup {DefaultMaxPendingChars}
PartThresholds == 0..MaxThreshold \cup {DefaultMaxPendingParts}

InitCol ==
    /\ \E mc \in CharThresholds, mp \in PartThresholds : InitCollector(mc, mp)
    /\ d = InitDecoder
    /\ out = <<>>
    /\ nfed = 0
    /\ failed = FALSE
    /\ last = Call("init", <<>>, InitDecoder, <<>>, NoError, FALSE)
    /\ plan = NoPlan

Push ==
    \E fragment \in PushTexts(MaxPushLen) :
        /\ Len(pushed) + Len(fragment) <= MaxPushed
        /\ col' = PushOp(col, fragment)
        /\ pushed' = pushed \o fragment
        /\ collast' = ColCall("push", <<>>)
        /\ UNCHANGED decvars

Flush ==
    /\ col' = FlushOp(col)
    /\ collast' = ColCall("flush", <<>>)
    /\ UNCHANGED <<pushed, decvars>>

ToString ==
    LET r == ToStringOp(col)
    IN  /\ col' = r.c
        /\ collast' = ColCall("to_string", r.ret)
        /\ UNCHANGED <<pushed, decvars>>

NextCol ==
    \/ Push
    \/ Flush
    \/ ToString

SpecCollector == InitCol /\ [][NextCol]_vars

\* ------------------------------------------------------------- composed Decoder

\* The on_data callback of the composed Decoder is the collector's push: the
\* collector after the strings of one decode_chunk call were pushed in order.
RECURSIVE PushAll(_, _)
PushAll(c, emitted) ==
    IF emitted = <<>> THEN c
    ELSE PushAll(PushOp(c, Head(emitted)), Tail(emitted))

\* Decoder.__init__: a collector with the default thresholds and a fresh
\* ChunkedDecoder; the caller is going to feed a valid stream.
InitComposed ==
    /\ InitCalls
    /\ plan \in {p \in Plans : p.extra = <<>>}

\* Decoder.decode_chunk on the next k characters of the input, for any k >= 1.
DecoderDecodeChunk ==
    \E k \in 1..(Len(Input) - nfed) :
        LET chunk == SubSeq(Input, nfed + 1, nfed + k)
            r == DecodeChunkOp(d, chunk)
        IN  /\ d' = r.d
            /\ out' = out \o Join(r.emitted)
            /\ nfed' = nfed + Len(chunk)
            /\ failed' = (failed \/ r.err # NoError)
            /\ last' = Call("decode_chunk", chunk, d, r.emitted, r.err, FALSE)
            /\ col' = PushAll(col, r.emitted)
            /\ pushed' = pushed \o Join(r.emitted)
            /\ collast' = IF r.emitted = <<>> THEN collast ELSE ColCall("push", <<>>)
            /\ UNCHANGED plan

\* Decoder.result
DecoderResult ==
    LET r == ToStringOp(col)
    IN  /\ col' = r.c
        /\ collast' = ColCall("to_string", r.ret)
        /\ last' = Call("result", <<>>, d, <<>>, NoError, FALSE)
        /\ UNCHANGED <<d, out, nfed, failed, plan, pushed>>

\* Decoder.finalize
DecoderFinalize ==
    LET r == FinalizeOp(d)
    IN  /\ d' = r.d
        /\ last' = Call("finalize", <<>>, d, <<>>, r.err, FALSE)
        /\ UNCHANGED <<out, nfed, failed, plan, colvars>>

NextComposed ==
    \/ DecoderDecodeChunk
    \/ DecoderResult
    \/ DecoderFinalize

SpecDecoder == InitComposed /\ [][NextComposed]_vars

\* ------------------------------------------------------------- size lines

\* The digits of the size lines of SpecSize: both cases, the smallest and
\* the largest digit values.
DigitAlphabet == {Char0, Char1, CharUpperA, CharLowerA, CharLowerF}

\* All texts over DigitAlphabet of at most len characters.
RECURSIVE DigitTexts(_)
DigitTexts(len) ==
    IF len = 0 THEN {<<>>}
    ELSE LET shorter == DigitTexts(len - 1)
         IN  shorter \cup {Append(t, c) : t \in {s \in shorter : Len(s) = len - 1},
                                          c \in DigitAlphabet}

\* A whole chunk of one payload character that precedes the size line.
OneChunk == <<Char1, CR, LF, CharG, CR, LF>>

\* A size line of at most MaxDigits digits, first in the stream or after a
\* chunk.
SizeInputs ==
    {lead \o digits \o <<CR, LF>> :
        lead \in {<<>>, OneChunk}, digits \in DigitTexts(MaxDigits)}

InitSize ==
    /\ InitCalls
    /\ plan \in [chunks : {<<>>}, extra : SizeInputs]

\* The caller passes the next k characters of the input, for any k >= 1.
FeedSize ==
    \E k \in 1..(Len(plan.extra) - nfed) :
        DecodeChunk(SubSeq(plan.extra, nfed + 1, nfed + k))

NextSize ==
    \/ FeedSize
    \/ IsDone

SpecSize == InitSize /\ [][NextSize]_vars

\* ------------------------------------------------------------- any input

\* The characters of the input of SpecAny: the delimiter characters, a digit
\* and a character that is no digit.
AnyAlphabet == {CR, LF, Char1, CharG}

\* All texts over AnyAlphabet of at most len characters.
RECURSIVE AnyTexts(_)
AnyTexts(len) ==
    IF len = 0 THEN {<<>>}
    ELSE LET shorter == AnyTexts(len - 1)
         IN  shorter \cup {Append(t, c) : t \in {s \in shorter : Len(s) = len - 1},
                                          c \in AnyAlphabet}

\* The caller is going to feed any text, valid or not.
InitAny ==
    /\ InitCalls
    /\ plan \in [chunks : {<<>>}, extra : AnyTexts(MaxText)]

\* The caller passes the next k characters of the text, for any k >= 1, and
\* stops at the first call that raises.
FeedAny ==
    /\ ~failed
    /\ \E k \in 1..(Len(plan.extra) - nfed) :
          DecodeChunk(SubSeq(plan.extra, nfed + 1, nfed + k))

NextAny == FeedAny

SpecAny == InitAny /\ [][NextAny]_vars

\* ------------------------------------------------------------- properties

IsPrefix(a, b) == Len(a) <= Len(b) /\ SubSeq(b, 1, Len(a)) = a

\* The whole valid stream passed in one decode_chunk call to a new decoder.
WholeFeed == DecodeChunkOp(InitDecoder, Stream)

\* The latest decode_chunk call cut after the first k characters of its
\* fragment: the same decoder passed only chunk[0:k].
Mid(k) == DecodeChunkOp(last.pre, Slice(last.chunk, 0, k))

\* C1 (SpecValid): when the fragments fed so far make up exactly a valid
\* stream, however it was split, the text delivered and every decoder field
\* are what one decode_chunk call with the whole stream gives, the decoder is
\* done and no call has raised.
C1_FragmentationInvariance ==
    nfed = Len(Stream) =>
        /\ out = Join(WholeFeed.emitted)
        /\ d = WholeFeed.d
        /\ WholeFeed.err = NoError
        /\ IsDoneOp(d)
        /\ ~failed

\* A stream of two chunks has been fed to its end, the last fragment being a
\* single character.
C1_Witness ==
    /\ nfed = Len(Stream)
    /\ Len(plan.chunks) = 2
    /\ last.op = "decode_chunk"
    /\ Len(last.chunk) = 1
    /\ out = Payload

\* C2 (SpecValid): the text delivered is at every moment a prefix of the
\* concatenated chunk payloads (no size-line or delimiter character is
\* delivered), and once the valid stream has been fed it is exactly the
\* concatenated payloads and the decoder is done; the stream of the terminal
\* chunk alone delivers nothing.
C2_PayloadDelivered ==
    /\ IsPrefix(out, Payload)
    /\ nfed >= Len(Stream) => (out = Payload /\ IsDoneOp(d))
    /\ (plan.chunks = <<>> /\ nfed >= Len(Stream)) => (out = <<>> /\ IsDoneOp(d))

\* The stream of the chunks CR LF and CR has been fed: the payloads look like
\* the delimiters around them.
C2_Witness ==
    /\ plan.chunks = <<(<<CR, LF>>), (<<CR>>)>>
    /\ nfed = Len(Stream)
    /\ out = <<CR, LF, CR>>
    /\ IsDoneOp(d)

\* C3 (Spec): from a decoder that is done, every call (decode_chunk with any
\* fragment, finalize, is_done) leaves every field and the delivered text as
\* they are, gives nothing to on_data and raises nothing.
C3_DoneIsFinal ==
    [][IsDoneOp(d) =>
          /\ d' = d
          /\ out' = out
          /\ last'.emitted = <<>>
          /\ last'.err = NoError]_vars

\* A decoder that was done has been passed a fragment holding a character
\* that is no hex digit.
C3_Witness ==
    /\ last.op = "decode_chunk"
    /\ IsDoneOp(last.pre)
    /\ Len(last.chunk) >= 2
    /\ \E k \in 1..Len(last.chunk) : last.chunk[k] = CharG

\* C4 (Spec): finalize raises the not-finished error exactly when the state
\* before it is not Done and raises nothing when it is Done; is_done returns
\* whether the state is Done; both leave every decoder field as it was.
C4_FinalizeReadOnly ==
    /\ last.op = "finalize" =>
          /\ d = last.pre
          /\ last.pre.state # STATE_DONE => last.err = ErrNotFinished
          /\ last.pre.state = STATE_DONE => last.err = NoError
    /\ last.op = "is_done" =>
          /\ d = last.pre
          /\ last.err = NoError
          /\ last.ret = (last.pre.state = STATE_DONE)

\* finalize has raised between the two delimiter characters that follow the
\* terminal size line.
C4_Witness ==
    /\ last.op = "finalize"
    /\ last.err = ErrNotFinished
    /\ d.state = STATE_EXPECT_CRLF
    /\ d.after_expect = NEXT_DONE
    /\ d.expect_index = 1

\* C5 (SpecValid): while only a strict prefix of the valid stream has been
\* fed, the decoder is not done, is_done returns false and finalize raises
\* the not-finished error.
C5_IncompleteDetected ==
    nfed < Len(Stream) =>
        /\ ~IsDoneOp(d)
        /\ FinalizeOp(d).err = ErrNotFinished
        /\ last.op = "finalize" => last.err = ErrNotFinished
        /\ last.op = "is_done" => last.ret = FALSE

\* finalize has raised in the middle of a payload, part of it delivered.
C5_Witness ==
    /\ last.op = "finalize"
    /\ last.err = ErrNotFinished
    /\ d.state = STATE_PAYLOAD
    /\ out # <<>>
    /\ nfed < Len(Stream)

\* C6 (Spec): every string the latest decode_chunk call gave to on_data is
\* non-empty.
C6_NonEmptyCallbacks ==
    \A k \in 1..Len(last.emitted) : last.emitted[k] # <<>>

\* A call that began inside a payload delivered the rest of it, the fragment
\* ending exactly where the payload ends.
C6_Witness ==
    /\ last.op = "decode_chunk"
    /\ last.pre.state = STATE_PAYLOAD
    /\ Len(last.emitted) = 1
    /\ last.emitted[1] = last.chunk
    /\ d.state = STATE_EXPECT_CRLF
    /\ out # last.chunk

\* The hex digits 0-9, A-F, a-f, and the characters tried in every
\* ReadingSize state: the neighbours of the three digit ranges, the delimiter
\* characters and some other characters a size line may be given.
HexDigitChars == (48..57) \cup (65..70) \cup (97..102)
ProbeChars == {9, 10, 13, 32, 43, 45, 47, 48, 57, 58, 59, 64, 65, 70, 71,
               88, 96, 97, 102, 103, 120, 255, 1632}

\* C7 (Spec): whenever a decode_chunk call reaches a character c in
\* ReadingSize (at the start of the fragment, or after k characters of it),
\* then: after a CR, c other than LF makes the call raise the expected-LF
\* size-line error; before the CR, c neither a hex digit nor CR makes it
\* raise the expected-hex-digits size-line error; and the call delivers
\* nothing beyond what it delivered before that size line.
C7_MalformedSize ==
    /\ last.op = "decode_chunk" =>
        \A k \in 0..(Len(last.chunk) - 1) :
            LET m == Mid(k)
                c == last.chunk[k + 1]
            IN  (m.err = NoError /\ m.d.state = STATE_SIZE) =>
                    /\ (m.d.saw_size_cr /\ c # LF) =>
                          (last.err = ErrSizeLF /\ last.emitted = m.emitted)
                    /\ (~m.d.saw_size_cr /\ c \notin HexDigitChars /\ c # CR) =>
                          (last.err = ErrSizeHex /\ last.emitted = m.emitted)
    /\ d.state = STATE_SIZE =>
        \A c \in ProbeChars :
            LET r == DecodeChunkOp(d, <<c>>)
            IN  /\ (d.saw_size_cr /\ c # LF) =>
                      (r.err = ErrSizeLF /\ r.emitted = <<>>)
                /\ (~d.saw_size_cr /\ c \notin HexDigitChars /\ c # CR) =>
                      (r.err = ErrSizeHex /\ r.emitted = <<>>)

\* The CR of a size line ended one fragment and the next fragment began with
\* a character other than LF.
C7_Witness ==
    /\ last.op = "decode_chunk"
    /\ last.pre.state = STATE_SIZE
    /\ last.pre.saw_size_cr
    /\ last.pre.size_any
    /\ last.chunk # <<>>
    /\ last.chunk[1] # LF
    /\ last.err = ErrSizeLF

C9_FailurePermanent ==
    [][failed => (out' = out /\ ~IsDoneOp(d'))]_vars

\* C10 (SpecCollector): the sealed blocks followed by the pending fragments
\* concatenate to everything passed to push, in call order; to_string
\* returns exactly that text, now and whenever it was the latest call.
C10_Concatenation ==
    /\ Join(col.blocks) \o Join(col.pending) = pushed
    /\ ToStringOp(col).ret = pushed
    /\ collast.op = "to_string" => collast.ret = pushed

\* to_string has returned the text of a collector holding several sealed
\* blocks.
C10_Witness ==
    /\ collast.op = "to_string"
    /\ Len(col.blocks) >= 2
    /\ Len(pushed) >= 3
    /\ collast.ret = pushed

\* The string passed to push in a step that pushes.
Pushing == SubSeq(pushed', Len(pushed) + 1, Len(pushed'))

\* C11 (SpecCollector): the stored pending character count is the total
\* length of the pending fragments; a collector built with a character
\* threshold >= 1 holds fewer pending characters than it, one built with a
\* fragment threshold >= 1 fewer pending fragments than it; push of the empty
\* string changes nothing; push of a non-empty string that brings the pending
\* characters or fragments to a threshold seals everything pending, the new
\* string last, into exactly one new block and leaves pending empty, and
\* otherwise only appends the string to pending.
C11_ThresholdMerging ==
    /\ [](/\ col.pending_chars = Len(Join(col.pending))
          /\ col.max_pending_chars >= 1 => col.pending_chars < col.max_pending_chars
          /\ col.max_pending_parts >= 1 => Len(col.pending) < col.max_pending_parts)
    /\ [][collast'.op = "push" =>
            IF Pushing = <<>>
            THEN col' = col
            ELSE IF \/ col.pending_chars + Len(Pushing) >= col.max_pending_chars
                    \/ Len(col.pending) + 1 >= col.max_pending_parts
            THEN /\ col'.blocks = Append(col.blocks, Join(col.pending) \o Pushing)
                 /\ col'.pending = <<>>
                 /\ col'.pending_chars = 0
            ELSE /\ col'.blocks = col.blocks
                 /\ col'.pending = Append(col.pending, Pushing)
                 /\ col'.pending_chars = col.pending_chars + Len(Pushing)]_vars

\* A collector with fragment threshold 2 and the default character threshold
\* has sealed its first block on the second push.
C11_Witness ==
    /\ collast.op = "push"
    /\ col.max_pending_parts = 2
    /\ col.max_pending_chars = DefaultMaxPendingChars
    /\ Len(col.blocks) = 1
    /\ col.pending = <<>>
    /\ Len(pushed) = 2

\* C12 (SpecDecoder): at every point between calls, whatever was read
\* before, Decoder.result would return the concatenation of all payload the
\* inner decoder delivered so far, and the latest result read returned
\* exactly that; a result read leaves the inner decoder's fields and what
\* was delivered untouched, so later decode_chunk calls deliver what they
\* would have delivered without it.
C12_ComposedResult ==
    /\ [](/\ ToStringOp(col).ret = out
          /\ last.op = "result" => collast.ret = out)
    /\ [][last'.op = "result" => d' = d /\ out' = out /\ nfed' = nfed]_vars

\* result was read after the terminal chunk of a stream of two chunks and
\* returned all three payload characters.
C12_Witness ==
    /\ last.op = "result"
    /\ IsDoneOp(d)
    /\ Len(out) = 3
    /\ Len(plan.chunks) = 2
    /\ collast.ret = out

\* C13 (Spec): wherever a size line may start, the line CR LF with no digit
\* is accepted and leaves the decoder exactly where the line 0 CR LF leaves
\* it, expecting the delimiter with resume target Done, nothing delivered,
\* and CR LF CR LF takes it to Done with nothing delivered; a call that
\* meets the LF of a digitless size line does not raise on it.
C13_EmptySizeLine ==
    /\ (d.state = STATE_SIZE /\ ~d.saw_size_cr /\ ~d.size_any) =>
         LET e == DecodeChunkOp(d, <<CR, LF>>)
             z == DecodeChunkOp(d, <<Char0, CR, LF>>)
             t == DecodeChunkOp(d, <<CR, LF, CR, LF>>)
         IN  /\ e.err = NoError /\ e.emitted = <<>>
             /\ e.d.state = STATE_EXPECT_CRLF
             /\ e.d.after_expect = NEXT_DONE
             /\ e.d.expect_index = 0
             /\ e.d.remaining = 0
             /\ e.d = z.d /\ z.err = NoError /\ z.emitted = <<>>
             /\ t.err = NoError /\ t.emitted = <<>> /\ IsDoneOp(t.d)
    /\ (/\ last.op = "decode_chunk"
        /\ last.pre.state = STATE_SIZE /\ last.pre.saw_size_cr /\ ~last.pre.size_any
        /\ last.chunk # <<>> /\ last.chunk[1] = LF) =>
         /\ Mid(1).err = NoError
         /\ Mid(1).d.state = STATE_EXPECT_CRLF
         /\ Mid(1).d.after_expect = NEXT_DONE
         /\ Mid(1).d.remaining = 0

\* The whole input was CR LF CR LF: the decoder is Done and delivered nothing.
C13_Witness ==
    /\ IsDoneOp(d)
    /\ nfed = 4
    /\ out = <<>>
    /\ ~failed
    /\ last.op = "decode_chunk"

\* The size declared by the most recent size line that lies wholly within
\* the first n characters of the valid stream of chunks (prev if none does).
RECURSIVE Declared(_, _, _)
Declared(chunks, n, prev) ==
    IF chunks = <<>> THEN (IF n >= 3 THEN 0 ELSE prev)
    ELSE LET size == Len(Head(chunks))
             line == Len(ToHex(size)) + 2
         IN  IF n < line THEN prev
             ELSE Declared(Tail(chunks), n - (line + size + 2), size)

\* C14 (SpecValid): remaining is never negative and never more than the size
\* declared by the most recent size line fed; it is positive while the state
\* is PAYLOAD and 0 while it is EXPECT_CRLF or DONE; within a call every
\* payload character delivered lowers remaining by one, and the state leaves
\* PAYLOAD only with remaining 0; a fragment shorter than remaining is
\* delivered whole and lowers remaining by its length.
C14_RemainingPayload ==
    /\ d.remaining >= 0
    /\ d.remaining <= Declared(plan.chunks, nfed, 0)
    /\ d.state = STATE_PAYLOAD => d.remaining > 0
    /\ d.state \in {STATE_EXPECT_CRLF, STATE_DONE} => d.remaining = 0
    /\ last.op = "decode_chunk" =>
         /\ \A k \in 0..(Len(last.chunk) - 1) :
                Mid(k).d.state = STATE_PAYLOAD =>
                  /\ Mid(k + 1).d.remaining = Mid(k).d.remaining - 1
                  /\ Len(Join(Mid(k + 1).emitted)) = Len(Join(Mid(k).emitted)) + 1
                  /\ Mid(k + 1).d.state # STATE_PAYLOAD => Mid(k + 1).d.remaining = 0
                  /\ Mid(k + 1).d.state \in {STATE_PAYLOAD, STATE_EXPECT_CRLF}
         /\ (last.pre.state = STATE_PAYLOAD /\ Len(last.chunk) < last.pre.remaining
             /\ last.chunk # <<>>) =>
                  /\ d.state = STATE_PAYLOAD
                  /\ d.remaining = last.pre.remaining - Len(last.chunk)
                  /\ last.emitted = <<last.chunk>>

\* A chunk of three characters has had two of them delivered in two calls:
\* one is still to come.
C14_Witness ==
    /\ last.op = "decode_chunk"
    /\ last.pre.state = STATE_PAYLOAD
    /\ last.pre.remaining = 2
    /\ Len(last.chunk) = 1
    /\ d.state = STATE_PAYLOAD
    /\ d.remaining = 1
    /\ Declared(plan.chunks, nfed, 0) = 3

\* The digits 0-9 A-F and 0-9 a-f in the order of their values.
UpperDigits == <<48, 49, 50, 51, 52, 53, 54, 55, 56, 57, 65, 66, 67, 68, 69, 70>>
LowerDigits == <<48, 49, 50, 51, 52, 53, 54, 55, 56, 57, 97, 98, 99, 100, 101, 102>>
RefDigit(c) == CHOOSE v \in 0..15 : UpperDigits[v + 1] = c \/ LowerDigits[v + 1] = c

\* The base-16 value of digits, most significant first.
RECURSIVE RefValue(_)
RefValue(digits) ==
    IF digits = <<>> THEN 0
    ELSE RefValue(SubSeq(digits, 1, Len(digits) - 1)) * 16
         + RefDigit(digits[Len(digits)])

\* The digits of the last size line of the input of SpecSize.
LineStart == IF IsPrefix(OneChunk, plan.extra) THEN Len(OneChunk) ELSE 0
LineDigits == SubSeq(plan.extra, LineStart + 1, Len(plan.extra) - 2)

\* C15 (SpecSize): when the size line has been fed, in whatever fragments,
\* the chunk size taken is the base-16 value of its digits, most significant
\* first, upper and lower case alike and leading zeros allowed (PAYLOAD with
\* that many characters remaining, or EXPECT_CRLF with resume target Done for
\* value 0); the accumulator, the any-digit flag and the saw-CR flag are
\* clear whenever the decoder is not inside a size line, and clear again
\* when the next size line starts after a chunk.
C15_SizeLineValue ==
    /\ ~failed
    /\ \A k \in 0..15 : HexValue(UpperDigits[k + 1]) = k /\ HexValue(LowerDigits[k + 1]) = k
    /\ nfed = Len(plan.extra) =>
         /\ d.remaining = RefValue(LineDigits)
         /\ d.state = (IF RefValue(LineDigits) > 0 THEN STATE_PAYLOAD ELSE STATE_EXPECT_CRLF)
         /\ RefValue(LineDigits) = 0 => d.after_expect = NEXT_DONE
    /\ (d.state # STATE_SIZE \/ nfed = LineStart) =>
         /\ d.size_acc = 0
         /\ ~d.size_any
         /\ ~d.saw_size_cr
    /\ (d.state = STATE_SIZE /\ ~d.saw_size_cr
        /\ LineStart <= nfed /\ nfed <= Len(plan.extra) - 2) =>
         /\ d.size_acc = RefValue(SubSeq(plan.extra, LineStart + 1, nfed))
         /\ d.size_any = (nfed > LineStart)

\* The size line 0Af that follows a chunk was fed in at least two calls, the
\* last one starting inside the digits: 175 characters are to come.
C15_Witness ==
    /\ nfed = Len(plan.extra)
    /\ LineStart = Len(OneChunk)
    /\ LineDigits = <<Char0, CharUpperA, CharLowerF>>
    /\ d.state = STATE_PAYLOAD
    /\ d.remaining = 175
    /\ last.pre.size_any
    /\ last.pre.state = STATE_SIZE

\* The state transitions of the decoder: from fields a to fields b.
Allowed(a, b) ==
    \/ /\ b.state = a.state
       /\ a.state = STATE_EXPECT_CRLF => b.after_expect = a.after_expect
    \/ /\ a.state = STATE_SIZE /\ b.state = STATE_PAYLOAD
       /\ b.remaining > 0
    \/ /\ a.state = STATE_SIZE /\ b.state = STATE_EXPECT_CRLF
       /\ b.remaining = 0 /\ b.after_expect = NEXT_DONE /\ b.expect_index = 0
    \/ /\ a.state = STATE_PAYLOAD /\ b.state = STATE_EXPECT_CRLF
       /\ b.after_expect = NEXT_SIZE /\ b.expect_index = 0
    \/ /\ a.state = STATE_EXPECT_CRLF /\ a.expect_index = 1
       /\ a.after_expect = NEXT_SIZE /\ b.state = STATE_SIZE
    \/ /\ a.state = STATE_EXPECT_CRLF /\ a.expect_index = 1
       /\ a.after_expect = NEXT_DONE /\ b.state = STATE_DONE

\* C16 (Spec): a new decoder is in state SIZE; each character of each
\* fragment (a further digit only while the accumulator, unbounded in Python,
\* stays below 2^31 with it) either leaves the state as it is (and, inside the delimiter,
\* the resume target too) or makes one of the transitions SIZE to PAYLOAD
\* with a size > 0, SIZE to EXPECT_CRLF with resume target Done and size 0,
\* PAYLOAD to EXPECT_CRLF with resume target SIZE, EXPECT_CRLF to its
\* recorded resume target on the LF that follows the CR; finalize and
\* is_done change no field.
C16_Transitions ==
    /\ InitDecoder.state = STATE_SIZE
    /\ last.op = "init" => d = InitDecoder
    /\ \A c \in Alphabet :
          LET r == DecodeChunkOp(d, <<c>>)
          IN  (HexValue(c) < 0 \/ d.size_acc < 2^27) =>
              /\ Allowed(d, r.d)
              /\ (d.state = STATE_EXPECT_CRLF /\ r.d.state # STATE_EXPECT_CRLF) => c = LF
              /\ (d.state = STATE_EXPECT_CRLF /\ d.expect_index = 0 /\ r.err = NoError) =>
                     c = CR /\ r.d = [d EXCEPT !.expect_index = 1]
    /\ last.op = "decode_chunk" =>
          \A k \in 0..(Len(last.chunk) - 1) : Allowed(Mid(k).d, Mid(k + 1).d)
    /\ last.op \in {"finalize", "is_done"} => d = last.pre

\* One call took the decoder from SIZE through the delimiter to DONE.
C16_Witness ==
    /\ last.op = "decode_chunk"
    /\ last.pre.state = STATE_SIZE
    /\ Len(last.chunk) = 3
    /\ Mid(1).d.state = STATE_EXPECT_CRLF
    /\ Mid(1).d.after_expect = NEXT_DONE
    /\ d.state = STATE_DONE

\* The number of payload characters among the first n characters of the
\* valid stream of chunks.
RECURSIVE PayloadCount(_, _)
PayloadCount(chunks, n) ==
    IF chunks = <<>> \/ n <= 0 THEN 0
    ELSE LET size == Len(Head(chunks))
             line == Len(ToHex(size)) + 2
             here == IF n <= line THEN 0
                     ELSE IF n - line >= size THEN size ELSE n - line
         IN  here + PayloadCount(Tail(chunks), n - (line + size + 2))

\* C17 (SpecValid): after every call the text delivered so far is exactly
\* the payload characters contained in the input fed so far, hence a prefix
\* of the whole payload; a call that starts in PAYLOAD delivers first, in
\* one string, the next min(remaining, fragment length) characters of the
\* fragment.
C17_EagerEmission ==
    /\ ~failed
    /\ out = SubSeq(Payload, 1, PayloadCount(plan.chunks, nfed))
    /\ IsPrefix(out, Payload)
    /\ (last.op = "decode_chunk" /\ last.pre.state = STATE_PAYLOAD /\ last.chunk # <<>>) =>
          LET m == IF last.pre.remaining <= Len(last.chunk)
                   THEN last.pre.remaining ELSE Len(last.chunk)
          IN  /\ last.emitted # <<>>
              /\ last.emitted[1] = SubSeq(last.chunk, 1, m)

\* Two of the three characters of a chunk were fed and have been delivered,
\* the call having ended in the middle of the payload.
C17_Witness ==
    /\ last.op = "decode_chunk"
    /\ d.state = STATE_PAYLOAD
    /\ d.remaining = 1
    /\ Len(out) = 2
    /\ Len(Payload) = 3
    /\ last.pre.state = STATE_SIZE

\* The number of iterations the while loop of decode_chunk makes from index
\* i on, counted up to fuel.
RECURSIVE Iterations(_, _, _, _)
Iterations(dec, chunk, i, fuel) ==
    IF i >= Len(chunk) \/ fuel = 0 THEN 0
    ELSE LET s == Step(dec, chunk, i)
         IN  IF s.ret THEN 1 ELSE 1 + Iterations(s.d, chunk, s.i, fuel - 1)

\* Every one of those iterations leaves decode_chunk (return or raise) or
\* moves the index forward.
RECURSIVE Advances(_, _, _, _)
Advances(dec, chunk, i, fuel) ==
    IF i >= Len(chunk) \/ fuel = 0 THEN TRUE
    ELSE LET s == Step(dec, chunk, i)
         IN  s.ret \/ (s.i > i /\ s.i <= Len(chunk) /\ Advances(s.d, chunk, s.i, fuel - 1))

\* C18 (Spec): in every decode_chunk call, on whatever fragment and from
\* whatever state the decoder had been brought to, every iteration of the
\* loop returns, raises or consumes at least one character, and the loop
\* makes at most as many iterations as the fragment has characters;
\* decode_chunk of the empty string changes no field, delivers nothing and
\* raises nothing.
C18_Terminates ==
    /\ (last.op = "decode_chunk" /\ last.pre.state # STATE_DONE) =>
          /\ Advances(last.pre, last.chunk, 0, Len(last.chunk) + 1)
          /\ Iterations(last.pre, last.chunk, 0, Len(last.chunk) + 1) <= Len(last.chunk)
    /\ (last.op = "decode_chunk" /\ last.chunk = <<>>) =>
          /\ d = last.pre
          /\ last.emitted = <<>>
          /\ last.err = NoError
    /\ LET r == DecodeChunkOp(d, <<>>)
       IN  r.d = d /\ r.emitted = <<>> /\ r.err = NoError

\* A call on three characters made three iterations, one per character,
\* and ended inside a payload.
C18_Witness ==
    /\ last.op = "decode_chunk"
    /\ Len(last.chunk) = 3
    /\ last.pre.state = STATE_SIZE
    /\ Iterations(last.pre, last.chunk, 0, 4) = 3
    /\ last.err = NoError
    /\ d.state = STATE_PAYLOAD

\* How many characters of the latest fragment belong to the valid stream.
Cut == Len(Stream) - (nfed - Len(last.chunk))

\* C19 (SpecValid): a call whose fragment holds the end of the valid stream
\* followed by more text raises nothing, leaves the decoder Done and delivers
\* exactly what the same decoder delivers when the fragment is cut at the
\* end of the stream and the rest is passed in a later call, that later
\* call delivering nothing; a fragment holding the whole stream and the
\* text after it yields the whole payload.
C19_TrailingDiscarded ==
    /\ (last.op = "decode_chunk" /\ 0 < Cut /\ Cut < Len(last.chunk)) =>
          LET a == DecodeChunkOp(last.pre, SubSeq(last.chunk, 1, Cut))
              b == DecodeChunkOp(a.d, SubSeq(last.chunk, Cut + 1, Len(last.chunk)))
          IN  /\ last.err = NoError
              /\ IsDoneOp(d)
              /\ a.err = NoError /\ b.err = NoError
              /\ d = b.d /\ d = a.d
              /\ b.emitted = <<>>
              /\ Join(last.emitted) = Join(a.emitted)
              /\ out = Payload
    /\ LET w == DecodeChunkOp(InitDecoder, Input)
       IN  w.err = NoError /\ IsDoneOp(w.d) /\ Join(w.emitted) = Payload
           /\ w.d = WholeFeed.d

\* One call was passed a whole stream of two chunks followed by the
\* character g.
C19_Witness ==
    /\ last.op = "decode_chunk"
    /\ plan.extra = <<CharG>>
    /\ last.chunk = Input
    /\ Len(plan.chunks) = 2
    /\ IsDoneOp(d)
    /\ out = Payload

\* The index in chunk of the character on which decode_chunk, passed chunk
\* with the fields pre, raises: the first character that is no hex digit at
\* or after the index the digit loop started from, and otherwise the
\* character read just before the index was moved on.
ErrIndex(pre, chunk) ==
    LET r == DecodeChunkOp(pre, chunk)
    IN  IF r.err = ErrSizeHex
        THEN CHOOSE j \in r.i..(Len(chunk) - 1) :
                /\ HexValue(chunk[j + 1]) < 0
                /\ \A k \in r.i..(j - 1) : HexValue(chunk[k + 1]) >= 0
        ELSE r.i - 1

\* The whole text passed in one decode_chunk call to a new decoder.
WholeAny == DecodeChunkOp(InitDecoder, plan.extra)

\* C20 (SpecAny): for any text and any split of it into non-empty fragments
\* fed until the first call that raises, that call raises what the one call
\* with the whole text raises, on the character at the same position of the
\* text, and the text delivered up to then, the failing call's deliveries
\* included, is what the one call delivered; until a call raises, no
\* character at or after that position has been fed and the text delivered
\* is a prefix of it; a text fed to its end without a raise leaves the
\* fields and the deliveries of the one call, which does not raise either.
C20_MalformedInvariance ==
    /\ failed =>
          /\ last.err = WholeAny.err
          /\ (nfed - Len(last.chunk)) + ErrIndex(last.pre, last.chunk)
               = ErrIndex(InitDecoder, plan.extra)
          /\ out = Join(WholeAny.emitted)
    /\ ~failed =>
          /\ IsPrefix(out, Join(WholeAny.emitted))
          /\ WholeAny.err # NoError => nfed <= ErrIndex(InitDecoder, plan.extra)
          /\ nfed = Len(plan.extra) =>
                /\ WholeAny.err = NoError
                /\ out = Join(WholeAny.emitted)
                /\ d = WholeAny.d

\* The text 1 CR LF g g was fed in at least two calls; the last one
\* delivered g and then raised on the final g, which is no CR.
C20_Witness ==
    /\ failed
    /\ plan.extra = <<Char1, CR, LF, CharG, CharG>>
    /\ last.err = ErrCRLF
    /\ last.emitted = <<<<CharG>>>>
    /\ last.pre.state = STATE_PAYLOAD
    /\ out = <<CharG>>

====
